---- MODULE Spec2Model ----
(***************************************************************************)
(* Session / authentication controller of the developer portal            *)
(* (services/self as carried in dev-portal/src/components/NavBar.jsx).    *)
(*                                                                         *)
(* The state is the module-level state of the script (store.idToken,      *)
(* hasReset, inactivityTimeout), the browser resources it drives           *)
(* (localStorage, the timer queue, the animation-frame queue,              *)
(* window.location, the promise returned by login) and the credentials     *)
(* exchange in flight.  Every handler is one atomic action: the browser    *)
(* runs each callback to completion.                                       *)
(***************************************************************************)
EXTENDS Integers, Sequences, FiniteSets, TLC

VARIABLES
    idToken,            \* store.idToken
    storage,            \* window.localStorage: key -> value
    hasReset,           \* let hasReset
    inactivityTimeout,  \* let inactivityTimeout (a timer id; 0 is undefined/null)
    timers,             \* live setTimeout entries: [id, due]
    timerCalls,         \* number of setTimeout calls so far (the id allocator)
    frames,             \* pending requestAnimationFrame callbacks
    now,                \* the wall clock, in milliseconds
    cognitoDomain,      \* configuration: identity-provider domain
    location,           \* window.location
    redirected,         \* the handler named by `last` assigned window.location
    loginPromise,       \* the promise login() returned, while login is the
                        \* handler named by `last`
    awsCredentials,     \* AWS.config.credentials: the token in its Logins map
    exchanges,          \* credentials.refresh calls not yet answered, per token
    apiClient,          \* the credentials initApiGatewayClient was last given
    signins,            \* POST /signin notifications sent and not yet answered
    last,               \* the exported function or deadline callback that ran last
    thrown,             \* the handler named by `last` threw to its caller
    frameSignals,       \* activity signals seen while authenticated, this
                        \* frame: 0, 1 or 2 for several
    frameResets,        \* deadline reschedules done by refreshActivity, this frame
    resetAt,            \* when refreshActivity last rescheduled the deadline of
                        \* the current session; -1 when it has not
    quiet,              \* the user has stopped interacting
    view                \* what the UI last read from the role predicates

vars == << idToken, storage, hasReset, inactivityTimeout, timers, timerCalls,
           frames, now, cognitoDomain, location, redirected, loginPromise,
           awsCredentials, exchanges, apiClient, signins, last, thrown,
           frameSignals, frameResets, resetAt, quiet, view >>

\* The part of the state the program itself owns or drives.
progVars == << idToken, storage, hasReset, inactivityTimeout, timers,
               timerCalls, frames, location, awsCredentials, exchanges,
               apiClient, signins >>

-----------------------------------------------------------------------------
(* Bounds of the model *)

MaxTimerCalls == 3      \* setTimeout calls in one behaviour
MaxTicks == 2           \* clock steps in one behaviour
MaxRoleLen == 3         \* length of the role strings tried by the role check

-----------------------------------------------------------------------------
(* Tokens.  A raw token is a tuple; the empty tuple stands for every falsy *)
(* value JavaScript has here (undefined, null, the empty string).  A       *)
(* three-part tuple <<"jwt", exp, role>> decodes; exp and role are each a  *)
(* set holding the claim when the payload has it.  Anything else makes     *)
(* jwtDecode throw.                                                        *)

Absent == << >>

Truthy(v) == v # Absent

\* jwt-decode: throws on an undecodable token
jwtDecodeThrows(token) == ~(Len(token) = 3 /\ token[1] = "jwt")

jwtDecode(token) == [exp |-> token[2], role |-> token[3]]

\* Role strings are sequences over a small alphabet in which the two marker
\* substrings can occur whole, in part, or not at all.
RoleAlphabet == {"-", "CognitoAdminRole", "CognitoRegisteredRole", "x"}

AdminMarker == << "-", "CognitoAdminRole", "-" >>

RegisteredMarker == << "-", "CognitoRegisteredRole", "-" >>

\* String.prototype.startsWith at a position
StartsAt(s, sub, i) ==
    /\ i + Len(sub) - 1 <= Len(s)
    /\ \A k \in 1..Len(sub) : s[i + k - 1] = sub[k]

\* String.prototype.includes: scan from the left for the first match
RECURSIVE IncludesFrom(_, _, _)
IncludesFrom(s, sub, i) ==
    IF i + Len(sub) - 1 > Len(s) THEN FALSE
    ELSE IF StartsAt(s, sub, i) THEN TRUE
    ELSE IncludesFrom(s, sub, i + 1)

includes(s, sub) == IncludesFrom(s, sub, 1)

\* jwtDecode(store.idToken)['cognito:preferred_role'] || ''
getPreferredRole(token) ==
    LET claim == jwtDecode(token).role
    IN  IF claim = {} THEN << >> ELSE CHOOSE r \in claim : TRUE

isAuthenticated == Truthy(idToken)

\* The role predicates answer "true", "false" or "throws" (jwtDecode threw).
\* `store.idToken && ...` yields the falsy token itself when none is set.
isRegisteredOf(token) ==
    IF ~Truthy(token) THEN "false"
    ELSE IF jwtDecodeThrows(token) THEN "throws"
    ELSE IF \/ includes(getPreferredRole(token), AdminMarker)
            \/ includes(getPreferredRole(token), RegisteredMarker)
         THEN "true" ELSE "false"

isAdminOfRegistered(token) ==
    IF ~Truthy(token) THEN "false"
    ELSE IF jwtDecodeThrows(token) THEN "throws"
    ELSE IF includes(getPreferredRole(token), RegisteredMarker)
         THEN "true" ELSE "false"

isAdminOf(token) ==
    IF ~Truthy(token) THEN "false"
    ELSE IF jwtDecodeThrows(token) THEN "throws"
    ELSE IF includes(getPreferredRole(token), AdminMarker)
         THEN "true" ELSE "false"

isRegistered == isRegisteredOf(idToken)

isAdmin == isAdminOf(idToken)

-----------------------------------------------------------------------------
(* Configuration and the browser's resources *)

\* parsedToken.exp * 1000: seconds to milliseconds
MsPerSec == 1000

\* window.config.clientSessionTimeout, here configured to one second
clientSessionTimeout == 1000

Step == MsPerSec

Horizon == MaxTicks * Step

cognitoUserPoolId == "userPoolId"

OtherKey == "otherKey"

NoDomain == ""

Domain == "https://idp.example"

\* localStorage.getItem: null when the key is not there
getItem(stor, key) == IF key \in DOMAIN stor THEN stor[key] ELSE Absent

\* localStorage.setItem
setItemOtherKey(stor, key, value) ==
    [k \in (DOMAIN stor) \cup {OtherKey} |-> IF k = OtherKey THEN value ELSE stor[k]]

setItem(stor, key, value) ==
    [k \in (DOMAIN stor) \cup {key} |-> IF k = key THEN value ELSE stor[k]]

\* localStorage.clear
clearStorage == [k \in {} |-> Absent]

\* setTimeout(logoutInactive, clientSessionTimeout): ids are never reused
setTimeout(live, calls) == live \cup {[id |-> calls + 1, due |-> now + clientSessionTimeout]}

\* clearTimeout(id)
clearTimeout(live, id) == {t \in live : t.id # id}

\* store.resetUserData(): the token is cleared
resetUserData == Absent

getLogoutRedirectUrl == << "/index.html", "action=logout" >>

getInactiveLogoutRedirectUrl == << "/index.html", "action=logout", "reason=inactive" >>

\* the page the portal is loaded from
PortalLocation == [endpoint |-> "/", logout_uri |-> << >>]

\* `${cognitoDomain}/logout?client_id=${cognitoClientId}&logout_uri=${redirectUrl}`
LogoutLocation(redirectUrl) == [endpoint |-> "/logout", logout_uri |-> redirectUrl]

-----------------------------------------------------------------------------
(* The tokens and location fragments the behaviours draw from *)

AdminRole == << "x", "-", "CognitoAdminRole", "-", "x" >>

RegisteredRole == << "x", "-", "CognitoRegisteredRole", "-", "x" >>

TokenAdmin == << "jwt", {2}, {AdminRole} >>

TokenRegistered == << "jwt", {1}, {RegisteredRole} >>

TokenPlain == << "jwt", {}, {} >>         \* neither an exp nor a role claim

TokenGarbage == << "ABC" >>               \* jwtDecode throws on it

Tokens == {TokenAdmin, TokenRegistered, TokenPlain, TokenGarbage}

\* A fragment is the list of its &-separated parameters, each the list of
\* its =-separated parts.
Fragments ==
    {<< <<"id_token", t>>, <<"other", <<"x">> >> >> : t \in {TokenAdmin, TokenGarbage}}
    \cup {<< <<"access_token", <<"ABC">> >> >>,
          << <<"id_token">> >>,
          << <<"id_token", TokenAdmin>>, <<"id_token", Absent>> >>}

\* the forEach of login(): the last id_token parameter wins; a parameter
\* without a value leaves param[1] undefined
RECURSIVE ParseIdToken(_, _)
ParseIdToken(params, acc) ==
    IF params = << >> THEN acc
    ELSE LET param == Head(params)
             value == IF Len(param) >= 2 THEN param[2] ELSE Absent
         IN  ParseIdToken(Tail(params),
                          IF param[1] = "id_token" THEN value ELSE acc)

-----------------------------------------------------------------------------
(* The handlers, as functions of the state they read *)

\* initApiGatewayClient(): "none" before any call, "blank" without
\* credentials, else the token of the credentials object it was given
NoClient == [kind |-> "none", token |-> Absent]

BlankClient == [kind |-> "blank", token |-> Absent]

ClientWith(credentials) == [kind |-> "credentials", token |-> credentials]

NoExchanges == [t \in Tokens |-> 0]

\* logout(), lines 248-259
logoutAlwaysRedirects(tok, stor, loc) ==
    [idToken    |-> resetUserData,
     storage    |-> clearStorage,
     location   |-> IF cognitoDomain # NoDomain
                    THEN LogoutLocation(getLogoutRedirectUrl)
                    ELSE loc,
     redirected |-> cognitoDomain # NoDomain]

logoutOf(tok, stor, loc) ==
    IF Truthy(tok)
    THEN [idToken    |-> resetUserData,
          storage    |-> clearStorage,
          location   |-> IF cognitoDomain # NoDomain
                         THEN LogoutLocation(getLogoutRedirectUrl)
                         ELSE loc,
          redirected |-> cognitoDomain # NoDomain]
    ELSE [idToken |-> tok, storage |-> stor, location |-> loc,
          redirected |-> FALSE]

\* setCredentials(), lines 217-246, up to the start of the exchange.  The
\* timer is scheduled before the token is decoded, so a throw of jwtDecode
\* leaves it scheduled.
setCredentialsOf(tok) ==
    [inactivityTimeout |-> timerCalls + 1,
     timers     |-> setTimeout(timers, timerCalls),
     timerCalls |-> timerCalls + 1,
     threw      |-> jwtDecodeThrows(tok),
     awsCredentials |-> IF jwtDecodeThrows(tok) THEN awsCredentials ELSE tok,
     exchanges  |-> IF jwtDecodeThrows(tok) THEN exchanges
                    ELSE [exchanges EXCEPT ![tok] = @ + 1]]

\* room for one more setTimeout call whose deadline the clock can reach
CanSchedule ==
    /\ timerCalls < MaxTimerCalls
    /\ now + clientSessionTimeout <= Horizon

\* valid = parsedToken.exp * 1000 > new Date(), false when the stored value
\* is falsy, when jwtDecode throws (caught) or when exp is missing (NaN)
\* the comparison of line 163 (a missing exp gives NaN, which compares false)
notExpiredAtBoundary(parsedToken, t) ==
    \E e \in parsedToken.exp : e * MsPerSec >= t

notExpired(parsedToken, t) ==
    \E e \in parsedToken.exp : e * MsPerSec > t

\* the try/catch of init(), lines 159-167: what `valid` ends as, and whether
\* an error leaves the block
tryDecodeUncaught(stored, t) ==
    IF ~Truthy(stored) THEN [valid |-> FALSE, threw |-> FALSE]
    ELSE IF jwtDecodeThrows(stored) THEN [valid |-> FALSE, threw |-> TRUE]
    ELSE [valid |-> notExpired(jwtDecode(stored), t), threw |-> FALSE]

tryDecode(stored, t) ==
    IF ~Truthy(stored) THEN [valid |-> FALSE, threw |-> FALSE]
    ELSE IF jwtDecodeThrows(stored) THEN [valid |-> FALSE, threw |-> FALSE]
    ELSE [valid |-> notExpired(jwtDecode(stored), t), threw |-> FALSE]

-----------------------------------------------------------------------------
(* Initial state: the script has just been loaded.  localStorage holds     *)
(* whatever an earlier page load left in it.                               *)

InitialStorages ==
    {clearStorage}
    \cup {setItem(clearStorage, cognitoUserPoolId, t) : t \in {TokenPlain, TokenGarbage}}
    \cup {setItem(setItem(clearStorage, OtherKey, <<"x">>), cognitoUserPoolId, TokenRegistered)}

NoReset == -1

NoPromise == [state |-> "none", value |-> Absent]

NoView == [auth |-> FALSE, admin |-> "false", registered |-> "false"]

InitCommon ==
    /\ hasReset = FALSE
    /\ inactivityTimeout = 0
    /\ timers = {}
    /\ timerCalls = 0
    /\ frames = 0
    /\ now = 0
    /\ location = PortalLocation
    /\ redirected = FALSE
    /\ loginPromise = NoPromise
    /\ awsCredentials = Absent
    /\ exchanges = NoExchanges
    /\ apiClient = NoClient
    /\ signins = 0
    /\ last = "load"
    /\ thrown = FALSE
    /\ frameSignals = 0
    /\ frameResets = 0
    /\ resetAt = NoReset
    /\ quiet = FALSE
    /\ view = NoView

Init ==
    /\ idToken = Absent
    /\ storage \in InitialStorages
    /\ cognitoDomain \in {NoDomain, Domain}
    /\ InitCommon

-----------------------------------------------------------------------------
(* Actions: one per exported function, event listener or callback *)

\* init(), lines 150-175
init ==
    LET stored == getItem(storage, cognitoUserPoolId)
        try    == tryDecode(stored, now)
        sc     == setCredentialsOf(stored)
        lo     == logoutOf(idToken, storage, location)
    IN  /\ ~quiet
        /\ try.valid => CanSchedule
        /\ apiClient' = BlankClient
        /\ IF try.threw
           THEN /\ thrown' = TRUE
                /\ redirected' = FALSE
                /\ UNCHANGED << idToken, storage, location,
                                inactivityTimeout, timers, timerCalls,
                                awsCredentials, exchanges >>
           ELSE IF try.valid
           THEN /\ idToken' = stored
                /\ inactivityTimeout' = sc.inactivityTimeout
                /\ timers' = sc.timers
                /\ timerCalls' = sc.timerCalls
                /\ awsCredentials' = sc.awsCredentials
                /\ exchanges' = sc.exchanges
                /\ thrown' = sc.threw
                /\ redirected' = FALSE
                /\ UNCHANGED << storage, location >>
           ELSE /\ idToken' = lo.idToken
                /\ storage' = lo.storage
                /\ location' = lo.location
                /\ redirected' = lo.redirected
                /\ thrown' = FALSE
                /\ UNCHANGED << inactivityTimeout, timers, timerCalls,
                                awsCredentials, exchanges >>
        /\ last' = "init"
        /\ resetAt' = IF idToken' = Absent THEN NoReset ELSE resetAt
        /\ loginPromise' = NoPromise
        /\ UNCHANGED << hasReset, frames, now, cognitoDomain, signins,
                        frameSignals, frameResets, quiet, view >>

\* login(), lines 177-208, called with window.location.hash = fragment
login(fragment) ==
    LET tok == ParseIdToken(fragment, Absent)
        sc  == setCredentialsOf(tok)
    IN  /\ ~quiet
        /\ Truthy(tok) => CanSchedule
        /\ IF Truthy(tok)
           THEN /\ storage' = setItem(storage, cognitoUserPoolId, tok)
                /\ idToken' = tok
                /\ inactivityTimeout' = sc.inactivityTimeout
                /\ timers' = sc.timers
                /\ timerCalls' = sc.timerCalls
                /\ awsCredentials' = sc.awsCredentials
                /\ exchanges' = sc.exchanges
                /\ loginPromise' = IF sc.threw
                                   THEN [state |-> "rejected", value |-> tok]
                                   ELSE [state |-> "resolved", value |-> tok]
           ELSE /\ loginPromise' = [state |-> "pending", value |-> Absent]
                /\ UNCHANGED << storage, idToken, inactivityTimeout, timers,
                                timerCalls, awsCredentials, exchanges >>
        /\ last' = "login"
        /\ thrown' = FALSE
        /\ redirected' = FALSE
        /\ UNCHANGED << hasReset, frames, now, cognitoDomain, location,
                        apiClient, signins, frameSignals, frameResets,
                        quiet, view, resetAt >>

\* logout(), lines 248-259
logout ==
    LET lo == logoutOf(idToken, storage, location)
    IN  /\ ~quiet
        /\ idToken' = lo.idToken
        /\ storage' = lo.storage
        /\ location' = lo.location
        /\ redirected' = lo.redirected
        /\ last' = "logout"
        /\ thrown' = FALSE
        /\ resetAt' = IF idToken' = Absent THEN NoReset ELSE resetAt
        /\ loginPromise' = NoPromise
        /\ UNCHANGED << hasReset, inactivityTimeout, timers, timerCalls,
                        frames, now, cognitoDomain, awsCredentials,
                        exchanges, apiClient, signins, frameSignals,
                        frameResets, quiet, view >>

\* the test of refreshActivity, line 126
shouldResetUnthrottled == inactivityTimeout # 0

shouldReset == inactivityTimeout # 0 /\ ~hasReset

\* refreshActivity(), lines 125-132: any of the listened-to DOM events
refreshActivity ==
    /\ ~quiet
    /\ shouldReset => CanSchedule
    /\ IF shouldReset
       THEN /\ hasReset' = TRUE
            /\ frames' = frames + 1
            /\ timers' = setTimeout(clearTimeout(timers, inactivityTimeout), timerCalls)
            /\ inactivityTimeout' = timerCalls + 1
            /\ timerCalls' = timerCalls + 1
            /\ frameResets' = frameResets + 1
       ELSE UNCHANGED << hasReset, frames, timers, inactivityTimeout,
                         timerCalls, frameResets >>
    /\ frameSignals' = IF ~isAuthenticated THEN frameSignals
                       ELSE IF frameSignals = 0 THEN 1 ELSE 2
    /\ resetAt' = IF shouldReset /\ isAuthenticated THEN now ELSE resetAt
    /\ UNCHANGED << idToken, storage, now, cognitoDomain, location,
                    redirected, loginPromise, awsCredentials, exchanges,
                    apiClient, signins, last, thrown, quiet, view >>

\* the callback given to requestAnimationFrame, line 128
FrameCallback ==
    /\ frames > 0
    /\ frames' = frames - 1
    /\ hasReset' = FALSE
    /\ frameSignals' = 0
    /\ frameResets' = 0
    /\ UNCHANGED << idToken, storage, inactivityTimeout, timers, timerCalls,
                    now, cognitoDomain, location, redirected, loginPromise,
                    awsCredentials, exchanges, apiClient, signins, last,
                    thrown, quiet, view, resetAt >>

\* the defensive test of logoutInactive, line 136
returnsEarlyHandleOnly == inactivityTimeout = 0

returnsEarly == inactivityTimeout = 0 \/ hasReset

\* the body of logoutInactive after the test, lines 138-147
logoutInactiveNormalUrl(tok, stor, loc) ==
    IF Truthy(tok)
    THEN [idToken    |-> resetUserData,
          storage    |-> clearStorage,
          location   |-> IF cognitoDomain # NoDomain
                         THEN LogoutLocation(getLogoutRedirectUrl)
                         ELSE loc,
          redirected |-> cognitoDomain # NoDomain]
    ELSE [idToken |-> tok, storage |-> stor, location |-> loc,
          redirected |-> FALSE]

logoutInactiveOf(tok, stor, loc) ==
    IF Truthy(tok)
    THEN [idToken    |-> resetUserData,
          storage    |-> clearStorage,
          location   |-> IF cognitoDomain # NoDomain
                         THEN LogoutLocation(getInactiveLogoutRedirectUrl)
                         ELSE loc,
          redirected |-> cognitoDomain # NoDomain]
    ELSE [idToken |-> tok, storage |-> stor, location |-> loc,
          redirected |-> FALSE]

\* logoutInactive(), lines 134-148, run by the timer t when it is due
logoutInactive(t) ==
    LET li == logoutInactiveOf(idToken, storage, location)
    IN  /\ t \in timers
        /\ t.due <= now
        /\ timers' = timers \ {t}
        /\ thrown' = FALSE
        /\ IF returnsEarly
           THEN /\ last' = "deadline-ignored"
                /\ redirected' = FALSE
                /\ UNCHANGED << inactivityTimeout, idToken, storage,
                                location >>
           ELSE /\ inactivityTimeout' = 0
                /\ idToken' = li.idToken
                /\ storage' = li.storage
                /\ location' = li.location
                /\ redirected' = li.redirected
                /\ last' = "deadline"
        /\ resetAt' = IF idToken' = Absent THEN NoReset ELSE resetAt
        /\ loginPromise' = NoPromise
        /\ UNCHANGED << hasReset, timerCalls, frames, now, cognitoDomain,
                        awsCredentials, exchanges, apiClient, signins,
                        frameSignals, frameResets, quiet, view >>

\* the callback given to AWS.config.credentials.refresh, lines 233-244: what
\* becomes of the promise setCredentials returned, of the API client and of
\* the sign-in notification.  Neither branch calls resolve.
refreshCallbackIgnoresError(error, credentials, client, inflight) ==
    [promise   |-> IF error THEN "rejected" ELSE "pending",
     apiClient |-> ClientWith(credentials),
     signins   |-> inflight + 1]

refreshCallbackPostsTwice(error, credentials, client, inflight) ==
    IF error
    THEN [promise |-> "rejected", apiClient |-> client, signins |-> inflight]
    ELSE [promise |-> "pending", apiClient |-> ClientWith(credentials),
          signins |-> inflight + 2]

refreshCallback(error, credentials, client, inflight) ==
    IF error
    THEN [promise |-> "rejected", apiClient |-> client, signins |-> inflight]
    ELSE [promise |-> "pending", apiClient |-> ClientWith(credentials),
          signins |-> inflight + 1]

\* the exchange started for token x answers without error
ExchangeSucceeds(x) ==
    LET cb == refreshCallback(FALSE, awsCredentials, apiClient, signins)
    IN  /\ exchanges[x] > 0
        /\ exchanges' = [exchanges EXCEPT ![x] = @ - 1]
        /\ apiClient' = cb.apiClient
        /\ signins' = cb.signins
        /\ UNCHANGED << idToken, storage, hasReset, inactivityTimeout,
                        timers, timerCalls, frames, now, cognitoDomain,
                        location, redirected, loginPromise, awsCredentials,
                        last, thrown, frameSignals, frameResets, resetAt,
                        quiet, view >>

\* the exchange started for token x answers with an error
ExchangeFails(x) ==
    LET cb == refreshCallback(TRUE, awsCredentials, apiClient, signins)
    IN  /\ exchanges[x] > 0
        /\ exchanges' = [exchanges EXCEPT ![x] = @ - 1]
        /\ apiClient' = cb.apiClient
        /\ signins' = cb.signins
        /\ UNCHANGED << idToken, storage, hasReset, inactivityTimeout,
                        timers, timerCalls, frames, now, cognitoDomain,
                        location, redirected, loginPromise, awsCredentials,
                        last, thrown, frameSignals, frameResets, resetAt,
                        quiet, view >>

\* the POST /signin of line 243 is answered, with or without an error: the
\* promise it belongs to has no handler on either side
SigninAnswers(ok) ==
    /\ signins > 0
    /\ signins' = signins - 1
    /\ UNCHANGED << idToken, storage, hasReset, inactivityTimeout, timers,
                    timerCalls, frames, now, cognitoDomain, location,
                    redirected, loginPromise, awsCredentials, exchanges,
                    apiClient, last, thrown, frameSignals, frameResets,
                    resetAt, quiet, view >>

\* time passes
Tick ==
    /\ now + Step <= Horizon
    /\ now' = now + Step
    /\ UNCHANGED << idToken, storage, hasReset, inactivityTimeout, timers,
                    timerCalls, frames, cognitoDomain, location, redirected,
                    loginPromise, awsCredentials, exchanges, apiClient,
                    signins, last, thrown, frameSignals, frameResets, quiet,
                    view, resetAt >>

\* the user walks away: no DOM event and no call of the exported functions
\* from here on
GoQuiet ==
    /\ ~quiet
    /\ quiet' = TRUE
    /\ UNCHANGED << idToken, storage, hasReset, inactivityTimeout, timers,
                    timerCalls, frames, now, cognitoDomain, location,
                    redirected, loginPromise, awsCredentials, exchanges,
                    apiClient, signins, last, thrown, frameSignals,
                    frameResets, view, resetAt >>

\* a UI component reads the predicates, lines 77-99 (NavBar: lines 28-45)
Observe ==
    /\ view' = [auth |-> isAuthenticated, admin |-> isAdmin,
                registered |-> isRegistered]
    /\ last' = "observe"
    /\ UNCHANGED << idToken, storage, hasReset, inactivityTimeout, timers,
                    timerCalls, frames, now, cognitoDomain, location,
                    redirected, loginPromise, awsCredentials, exchanges,
                    apiClient, signins, thrown, frameSignals, frameResets,
                    quiet, resetAt >>

-----------------------------------------------------------------------------
(* Specifications *)

Next ==
    \/ init
    \/ \E fragment \in Fragments : login(fragment)
    \/ logout
    \/ refreshActivity
    \/ FrameCallback
    \/ \E t \in timers : logoutInactive(t)
    \/ \E x \in Tokens : ExchangeSucceeds(x)
    \/ \E x \in Tokens : ExchangeFails(x)
    \/ \E ok \in BOOLEAN : SigninAnswers(ok)
    \/ Tick

Spec == Init /\ [][Next]_vars

\* The browser runs due timers and requested animation-frame callbacks, and
\* the clock advances; the user is free to act or not.
FairNext == Next \/ GoQuiet

FairSpec ==
    /\ Init
    /\ [][FairNext]_vars
    /\ WF_vars(Tick)
    /\ WF_vars(FrameCallback)
    /\ WF_vars(\E t \in timers : logoutInactive(t))

\* The role predicates on their own: every token the role alphabet builds.
RECURSIVE RoleStrings(_)
RoleStrings(n) ==
    IF n = 0 THEN {<< >>}
    ELSE LET shorter == RoleStrings(n - 1)
         IN  shorter \cup {Append(r, c) : r \in shorter, c \in RoleAlphabet}

RoleTokens ==
    {<< "jwt", {2}, {r} >> : r \in RoleStrings(MaxRoleLen)}
    \cup {TokenPlain, TokenGarbage, Absent}

RolesInit ==
    /\ idToken \in RoleTokens
    /\ storage = clearStorage
    /\ cognitoDomain = NoDomain
    /\ InitCommon

RolesSpec == RolesInit /\ [][Observe]_vars

-----------------------------------------------------------------------------
(* Properties *)

\* the session's part of the state, which a handler that "changes nothing"
\* leaves alone
sessionVars == << idToken, storage, inactivityTimeout, timers >>

HasReasonMarker(url) ==
    \E i \in 1..Len(url.logout_uri) : url.logout_uri[i] = "reason=inactive"

\* C1: logout() is idempotent.  A call leaves the token absent and, when it
\* found a token, the storage empty; it redirects only when it found a token,
\* and then to the logout URL; a call that finds no token (the second of two
\* calls in a row included) changes nothing and redirects nowhere; applying
\* logout to its own result gives that result again, without a redirect.
C1_LogoutIdempotent ==
    [][logout =>
        LET once  == logoutOf(idToken, storage, location)
            twice == logoutOf(once.idToken, once.storage, once.location)
        IN  /\ idToken' = Absent
            /\ Truthy(idToken) => storage' = clearStorage
            /\ redirected'
                 => /\ Truthy(idToken)
                    /\ location' = LogoutLocation(getLogoutRedirectUrl)
            /\ ~redirected' => location' = location
            /\ twice = [once EXCEPT !.redirected = FALSE]
            /\ ~Truthy(idToken) => (UNCHANGED progVars /\ ~redirected')
            /\ last = "logout" => (UNCHANGED progVars /\ ~redirected')
    ]_vars

\* logout() has run a second time: the first call cleared the session and
\* redirected, the second found nothing to do
C1_Witness ==
    /\ last = "logout"
    /\ ~redirected
    /\ idToken = Absent
    /\ storage = clearStorage
    /\ location = LogoutLocation(getLogoutRedirectUrl)
    /\ timerCalls = 1

\* C2: login() on a fragment without an id_token settles its promise as
\* rejected and leaves the session, the storage and the timer alone.
C2_MissingTokenRejects ==
    [][\A fragment \in Fragments :
        (login(fragment) /\ ~Truthy(ParseIdToken(fragment, Absent)))
        => /\ loginPromise'.state = "rejected"
           /\ UNCHANGED sessionVars
    ]_vars

\* C3: login() with a decodable id_token=T sets the session token to T, stores
\* T under the user-pool key and resolves with T; init() run next, while T's
\* expiry is still ahead, ends authenticated with T.
C3_LoginInitRoundTrip ==
    [][ /\ \A fragment \in Fragments :
            LET T == ParseIdToken(fragment, Absent)
            IN  (Truthy(T) /\ ~jwtDecodeThrows(T) /\ timerCalls' # timerCalls
                    /\ login(fragment))
                => /\ idToken' = T
                   /\ getItem(storage', cognitoUserPoolId) = T
                   /\ loginPromise' = [state |-> "resolved", value |-> T]
        /\ LET T == loginPromise.value
           IN  ( /\ last = "login"
                 /\ loginPromise.state = "resolved"
                 /\ init
                 /\ \E e \in jwtDecode(T).exp : e * MsPerSec > now )
               => /\ idToken' = T
                  /\ Truthy(idToken')
                  /\ getItem(storage', cognitoUserPoolId) = T
    ]_vars

\* init() has restored the token a login() stored: two setCredentials calls
C3_Witness ==
    /\ last = "init"
    /\ idToken = TokenAdmin
    /\ getItem(storage, cognitoUserPoolId) = TokenAdmin
    /\ timerCalls = 2
    /\ frames = 0

\* C4: init() ends authenticated exactly when a stored token decodes to an
\* expiry with exp * 1000 > now; a stored token with exp * 1000 <= now ends
\* unauthenticated, schedules no timer and starts no exchange.
C4_InitExpiry ==
    [][init =>
        LET stored == getItem(storage, cognitoUserPoolId)
            decodes == Truthy(stored) /\ ~jwtDecodeThrows(stored)
        IN  /\ Truthy(idToken')
                <=> (decodes /\ \E e \in jwtDecode(stored).exp : e * MsPerSec > now)
            /\ (decodes /\ \E e \in jwtDecode(stored).exp : e * MsPerSec <= now)
                => /\ idToken' = Absent
                   /\ UNCHANGED << timers, timerCalls, inactivityTimeout,
                                   exchanges, awsCredentials >>
    ]_vars

\* init() has run on a stored token whose expiry equals the clock
C4_Witness ==
    /\ last = "init"
    /\ getItem(storage, cognitoUserPoolId) = TokenRegistered
    /\ now = 1 * MsPerSec
    /\ timerCalls = 0
    /\ idToken = Absent

\* C5: init() on a stored token that does not decode returns normally, ends
\* unauthenticated, schedules no timer and starts no exchange.
C5_InitMalformed ==
    [][init =>
        LET stored == getItem(storage, cognitoUserPoolId)
        IN  (Truthy(stored) /\ jwtDecodeThrows(stored))
            => /\ ~thrown'
               /\ idToken' = Absent
               /\ UNCHANGED << timers, timerCalls, inactivityTimeout,
                               exchanges, awsCredentials >>
               /\ timerCalls = 0 => (timers' = {} /\ inactivityTimeout' = 0)
    ]_vars

\* init() has run on the undecodable token an earlier page load left behind
C5_Witness ==
    /\ last = "init"
    /\ getItem(storage, cognitoUserPoolId) = TokenGarbage
    /\ idToken = Absent
    /\ ~thrown
    /\ timers = {}
    /\ apiClient = BlankClient

\* C6: a deadline that fires on an authenticated session with the handle set
\* and no reset recorded clears the token and the storage and, with a domain
\* configured, redirects to the URL carrying the reason marker; a redirect
\* carries the marker exactly when the deadline callback made it; without a
\* domain nothing redirects.
C6_InactiveRedirect ==
    [][ /\ \A t \in timers :
            ( /\ logoutInactive(t)
              /\ Truthy(idToken)
              /\ inactivityTimeout # 0
              /\ ~hasReset )
            => /\ idToken' = Absent
               /\ storage' = clearStorage
               /\ inactivityTimeout' = 0
               /\ redirected' <=> cognitoDomain # NoDomain
               /\ redirected' => HasReasonMarker(location')
        /\ (redirected' /\ (logout \/ init))
            => /\ cognitoDomain # NoDomain
               /\ location' = LogoutLocation(getLogoutRedirectUrl)
               /\ ~HasReasonMarker(location')
        /\ location' # location
            => /\ redirected'
               /\ cognitoDomain # NoDomain
               /\ logout \/ init \/ \E t \in timers : logoutInactive(t)
               /\ HasReasonMarker(location') <=> \E t \in timers : logoutInactive(t)
    ]_vars

\* the deadline has logged an authenticated session out, with a redirect
C6_Witness ==
    /\ last = "deadline"
    /\ redirected
    /\ idToken = Absent
    /\ inactivityTimeout = 0
    /\ storage = clearStorage
    /\ HasReasonMarker(location)

\* C7: activity signals are coalesced per animation frame.  Between two
\* animation-frame callbacks refreshActivity reschedules at most once, and
\* exactly once when a signal arrived on an authenticated session; a
\* reschedule cancels the timer the handle named and schedules one timer a
\* full timeout ahead; the animation-frame callback reopens the window.
C7_ActivityCoalesced ==
    /\ [](frameResets <= 1 /\ (frameSignals >= 1 => frameResets = 1))
    /\ [][ /\ refreshActivity
               => /\ frameResets' - frameResets = timerCalls' - timerCalls
                  /\ frameResets' # frameResets
                       => /\ \A t \in timers' : t.id # inactivityTimeout
                          /\ [id |-> inactivityTimeout',
                              due |-> now + clientSessionTimeout] \in timers'
                          /\ timers' \ timers
                               = {[id |-> inactivityTimeout',
                                   due |-> now + clientSessionTimeout]}
           /\ FrameCallback => (~hasReset' /\ frameSignals' = 0 /\ frameResets' = 0)
       ]_vars

\* several signals reached an authenticated session within one frame and the
\* deadline was rescheduled once
C7_Witness ==
    /\ isAuthenticated
    /\ frameSignals = 2
    /\ frameResets = 1
    /\ hasReset
    /\ frames = 1

\* C8: once the user is idle on an authenticated session, fair timers and
\* animation frames eventually end the session.
C8_InactivityEnforced == (quiet /\ isAuthenticated) ~> ~isAuthenticated

\* C9: the role predicates.  isAdmin holds iff a token is set and its role
\* claim contains the admin marker; isRegistered iff it contains either
\* marker; both are false without a token or with an empty or missing
\* claim; isAdmin implies isRegistered; the UI reads the same answers.
C9_RolePredicates ==
    LET Contains(marker) ==
            /\ Truthy(idToken)
            /\ ~jwtDecodeThrows(idToken)
            /\ \E role \in jwtDecode(idToken).role :
                 \E i \in 1..Len(role) :
                    /\ i + Len(marker) - 1 <= Len(role)
                    /\ SubSeq(role, i, i + Len(marker) - 1) = marker
        NoRole ==
            \/ ~Truthy(idToken)
            \/ /\ ~jwtDecodeThrows(idToken)
               /\ jwtDecode(idToken).role \subseteq {<< >>}
    IN  /\ isAdmin = "true" <=> Contains(AdminMarker)
        /\ isRegistered = "true"
             <=> (Contains(AdminMarker) \/ Contains(RegisteredMarker))
        /\ NoRole => (isAdmin = "false" /\ isRegistered = "false")
        /\ isAdmin = "true" => isRegistered = "true"
        /\ last = "observe"
             => view = [auth |-> Truthy(idToken), admin |-> isAdmin,
                        registered |-> isRegistered]

\* the UI has read the predicates on an admin token
C9_Witness ==
    /\ last = "observe"
    /\ view.admin = "true"
    /\ view.registered = "true"
    /\ \E role \in jwtDecode(idToken).role : Len(role) = MaxRoleLen

\* C10: an inactivity timer exists iff the session is authenticated.
C10_TimerIffAuthenticated ==
    /\ isAuthenticated => (inactivityTimeout # 0 /\ timers # {})
    /\ ~isAuthenticated => (inactivityTimeout = 0 /\ timers = {})

\* C11: at most one inactivity deadline is pending at any time.
C11_AtMostOneDeadline == Cardinality(timers) <= 1

\* C12: logout() called on an authenticated session leaves no deadline
\* pending and the timer handle cleared.
C12_LogoutCancelsTimer ==
    [][(logout /\ isAuthenticated)
        => (timers' = {} /\ inactivityTimeout' = 0)
    ]_vars

\* C13: after every completed init(), login(), logout() or inactivity logout
\* the storage holds a token under the user-pool key iff the session token
\* is set, and then the two are equal.
C13_StorageInSync ==
    last \in {"init", "login", "logout", "deadline"}
        => getItem(storage, cognitoUserPoolId) = idToken

\* C14: the inactivity deadline is monotonic.  Once refreshActivity has
\* rescheduled the deadline of an authenticated session at resetAt, a
\* deadline callback logs the session out only at or after resetAt plus the
\* session timeout, and only through a deadline that is due no earlier.
C14_DeadlineMonotonic ==
    [][\A t \in timers :
        (logoutInactive(t) /\ isAuthenticated /\ ~isAuthenticated'
            /\ resetAt # NoReset)
        => /\ now >= resetAt + clientSessionTimeout
           /\ t.due >= resetAt + clientSessionTimeout
    ]_vars

\* C15: a deadline callback that runs while the timer handle is cleared, or
\* while a reset is recorded for the current animation frame, leaves the
\* session token, the storage and the handle as they are and redirects
\* nowhere.
C15_DefensiveRecheck ==
    [][\A t \in timers :
        (logoutInactive(t) /\ (inactivityTimeout = 0 \/ hasReset))
        => /\ UNCHANGED << idToken, storage, inactivityTimeout, location >>
           /\ ~redirected'
           /\ last' = "deadline-ignored"
    ]_vars

\* a deadline fired on an authenticated session within the frame of a reset
\* and was ignored
C15_Witness ==
    /\ last = "deadline-ignored"
    /\ isAuthenticated
    /\ hasReset
    /\ inactivityTimeout # 0
    /\ getItem(storage, cognitoUserPoolId) = idToken

\* C16: a failed credentials exchange does not log the user out.  The
\* promise of the refresh is rejected; the session token, the storage, the
\* inactivity timer and window.location stay as they were; the API client
\* receives no credentials and no sign-in notification is sent.
C16_FailedExchangeKeepsSession ==
    [][\A x \in Tokens :
        ExchangeFails(x)
        => /\ refreshCallback(TRUE, awsCredentials, apiClient, signins).promise
                = "rejected"
           /\ UNCHANGED << idToken, storage, inactivityTimeout, timers,
                           hasReset, location, redirected >>
           /\ UNCHANGED << apiClient, signins >>
    ]_vars

\* the exchange of a login failed: still authenticated, token persisted,
\* deadline pending, blank or no API client, nothing posted
C16_Witness ==
    /\ idToken = TokenAdmin
    /\ getItem(storage, cognitoUserPoolId) = TokenAdmin
    /\ inactivityTimeout # 0
    /\ timers # {}
    /\ exchanges = NoExchanges
    /\ apiClient.kind # "credentials"
    /\ signins = 0
    /\ loginPromise = [state |-> "resolved", value |-> TokenAdmin]

\* C17: outbound call ordering.  A login() that resolves and an init() that
\* restores a token each start exactly one credentials exchange, for that
\* token, and nothing else starts one; a sign-in notification is sent only
\* by an exchange answering without error, once, in the step that hands the
\* credentials to the API client; the answer to a notification, failure
\* included, changes nothing else.
C17_OutboundOrdering ==
    [][ /\ \A fragment \in Fragments :
            (loginPromise'.state = "resolved" /\ timerCalls' # timerCalls
                /\ login(fragment))
            => exchanges' = [exchanges EXCEPT ![idToken'] = @ + 1]
        /\ (Truthy(idToken') /\ timerCalls' # timerCalls /\ init)
            => exchanges' = [exchanges EXCEPT ![idToken'] = @ + 1]
        /\ (\E x \in Tokens : exchanges'[x] > exchanges[x])
            => \/ init /\ Truthy(idToken')
               \/ \E fragment \in Fragments :
                    login(fragment) /\ loginPromise'.state = "resolved"
        /\ \A x \in Tokens :
            ExchangeSucceeds(x)
            => /\ exchanges' = [exchanges EXCEPT ![x] = @ - 1]
               /\ apiClient' = ClientWith(awsCredentials)
               /\ signins' = signins + 1
        /\ signins' > signins
            => \E x \in Tokens : ExchangeSucceeds(x)
        /\ \A ok \in BOOLEAN :
            SigninAnswers(ok)
            => UNCHANGED << idToken, storage, hasReset, inactivityTimeout,
                            timers, location, redirected, loginPromise,
                            awsCredentials, exchanges, apiClient >>
    ]_vars

\* one login, its exchange answered without error, the credentials of its
\* token installed, the one notification sent and answered
C17_Witness ==
    /\ idToken = TokenAdmin
    /\ timerCalls = 1
    /\ exchanges = NoExchanges
    /\ apiClient = ClientWith(TokenAdmin)
    /\ signins = 0
    /\ last = "login"

\* C18: every credential refresh settles.  The promise setCredentials
\* returned can be settled only by the callback of the exchange, so it
\* settles eventually iff the callback leaves it resolved or rejected.
C18_RefreshSettles ==
    [][\A x \in Tokens :
        /\ ExchangeSucceeds(x)
            => refreshCallback(FALSE, awsCredentials, apiClient, signins).promise
                \in {"resolved", "rejected"}
        /\ ExchangeFails(x)
            => refreshCallback(TRUE, awsCredentials, apiClient, signins).promise
                \in {"resolved", "rejected"}
    ]_vars

\* C19: a login() whose promise is rejected leaves the session token, the
\* storage and the inactivity timer as they were before the call.
C19_RejectedLoginChangesNothing ==
    [][\A fragment \in Fragments :
        (login(fragment) /\ loginPromise'.state = "rejected")
        => UNCHANGED sessionVars
    ]_vars

\* C20: an exchange that answers after logout() or an inactivity logout has
\* cleared the session installs no credentials in the API layer and sends no
\* sign-in notification.
C20_NoInstallAfterLogout ==
    [][\A x \in Tokens :
        (ExchangeSucceeds(x) /\ ~isAuthenticated)
        => UNCHANGED << apiClient, signins >>
    ]_vars

====
